---- MODULE Spec2Model ----
(***************************************************************************)
(* The sharded buffer cache of kernel/bio.c: NBUCKETS buckets, each a      *)
(* spinlock plus NBUF struct buf, and the operations bget/bread, bwrite,   *)
(* brelse, bpin and bunpin run by concurrent kernel threads.               *)
(***************************************************************************)
EXTENDS Integers, FiniteSets, Sequences, TLC

\* ---- the cache's configuration (param.h, scaled down), then the bounds ----
NBUCKETS == 2
NBUF == 2
NTHREADS == 2
MaxDev == 1
MaxBlock == 2
MaxTicks == 1
MaxCalls == 3
MaxPinned == 1

Threads == 1..NTHREADS
Devs == 0..MaxDev
Blocks == 0..MaxBlock
Buckets == 0..(NBUCKETS - 1)
Slots == Buckets \X (0..(NBUF - 1))
NoBuf == <<>>
NoId == <<>>

VARIABLES
    lock,       \* bcache[i].lock: 0 when free, else the thread holding the spinlock
    buf,        \* bcache[i].buf[j]: dev, blockno, valid, refcnt, tstamp
    slk,        \* b->lock (sleeplock): 0 when unlocked, else the pid of the holder
    ticks,      \* the global tick counter, as of the last read of it
    pc,         \* where each thread is
    req,        \* bread's arguments <<dev, blockno>> of each thread
    b,          \* each thread's struct buf *b (lru in bget's eviction path)
    id,         \* each thread's local uint id
    hold,       \* the locked buffer bread returned to the thread and it has not released
    calls,      \* calls of bread, and of bwrite and brelse without the lock, so far
    panicked,   \* "" or the message of the panic that halted the kernel
    pins,       \* history: bpin calls on the slot not yet undone by bunpin
    fills,      \* history: disk reads into the slot since its identity was assigned
    io,         \* the transfer each thread has handed to virtio_disk_rw and waits for
    rd,         \* history: did the thread's current bread call the driver
    vlock,      \* history: b->valid when the thread's acquiresleep returned
    vscan,      \* history: 1 when the thread's bget found the block cached and valid
    scan        \* history: the cache as bget's scan found it, and what the scan did

vars == <<lock, buf, slk, ticks, pc, req, b, id, hold, calls, panicked,
          pins, fills, io, rd, vlock, vscan, scan>>

hist == <<calls, pins, fills, io, rd, vlock, vscan, scan>>

\* the block identity a slot carries
Ident(s) == <<buf[s].dev, buf[s].blockno>>

\* uint id = blockno % NBUCKETS
Hash(blockno) == blockno % NBUCKETS

\* holdingsleep(&b->lock) evaluated by thread t
holdingsleep(t, s) == slk[s] = t

\* static storage is zeroed; binit only initialises the locks
ZeroBuf == [dev |-> 0, blockno |-> 0, valid |-> 0, refcnt |-> 0, tstamp |-> 0]

Init ==
    /\ lock = [i \in Buckets |-> 0]
    /\ buf = [s \in Slots |-> ZeroBuf]
    /\ slk = [s \in Slots |-> 0]
    /\ ticks = 0
    /\ pc = [t \in Threads |-> "idle"]
    /\ req = [t \in Threads |-> NoId]
    /\ b = [t \in Threads |-> NoBuf]
    /\ id = [t \in Threads |-> 0]
    /\ hold = [t \in Threads |-> NoBuf]
    /\ calls = 0
    /\ panicked = ""
    /\ pins = [s \in Slots |-> 0]
    /\ fills = [s \in Slots |-> 0]
    /\ io = [t \in Threads |-> <<>>]
    /\ rd = [t \in Threads |-> FALSE]
    /\ vlock = [t \in Threads |-> 0]
    /\ vscan = [t \in Threads |-> 0]
    /\ scan = [t \in Threads |-> <<>>]

\* a read of ticks: the timer interrupt has advanced it any number of times
\* since the last read
Clock == ticks..MaxTicks

\* ---- bget ----

\* line 53 without the comparison of dev
MatchBlockOnly(r, dev, blockno) == r.blockno = blockno

\* line 53: the slot caches block (dev, blockno)
Match(r, dev, blockno) == r.dev = dev /\ r.blockno = blockno

\* line 58 without the test of refcnt
OlderAnyRefcnt(r, lru) == lru = NoBuf \/ buf[lru].tstamp > r.tstamp

\* line 58 with the comparison of the tstamps turned around
OlderReversed(r, lru) == r.refcnt = 0 /\ (lru = NoBuf \/ buf[lru].tstamp < r.tstamp)

\* line 58 with lru != 0 && in place of lru == 0 ||
OlderNeverFirst(r, lru) == r.refcnt = 0 /\ (lru # NoBuf /\ buf[lru].tstamp > r.tstamp)

\* line 58 with >= in place of >
OlderOrEqual(r, lru) == r.refcnt = 0 /\ (lru = NoBuf \/ buf[lru].tstamp >= r.tstamp)

\* line 58: the slot replaces lru as the eviction candidate
Older(r, lru) == r.refcnt = 0 /\ (lru = NoBuf \/ buf[lru].tstamp > r.tstamp)

\* lines 52-58 with the scan ended at the first slot it could recycle
RECURSIVE BgetLoopEarly(_, _, _, _, _)
BgetLoopEarly(i, j, dev, blockno, lru) ==
    IF j = NBUF THEN [hit |-> NoBuf, lru |-> lru]
    ELSE IF Match(buf[<<i, j>>], dev, blockno) THEN [hit |-> <<i, j>>, lru |-> lru]
    ELSE IF Older(buf[<<i, j>>], lru) THEN [hit |-> NoBuf, lru |-> <<i, j>>]
    ELSE BgetLoopEarly(i, j + 1, dev, blockno, lru)

\* lines 52-58: the scan of bucket i from slot j on; the first match ends it
RECURSIVE BgetLoop(_, _, _, _, _)
BgetLoop(i, j, dev, blockno, lru) ==
    IF j = NBUF THEN [hit |-> NoBuf, lru |-> lru]
    ELSE IF Match(buf[<<i, j>>], dev, blockno) THEN [hit |-> <<i, j>>, lru |-> lru]
    ELSE IF Older(buf[<<i, j>>], lru) THEN BgetLoop(i, j + 1, dev, blockno, <<i, j>>)
    ELSE BgetLoop(i, j + 1, dev, blockno, lru)

\* line 54 left out
HitNoRef(r) == r

\* line 54 as b->refcnt = 1
HitResets(r) == [r EXCEPT !.refcnt = 1]

\* line 54: b->refcnt++
Hit(r) == [r EXCEPT !.refcnt = @ + 1]

\* lines 62-66 without line 64
RecycleKeepsValid(r, dev, blockno, now) ==
    [dev |-> dev, blockno |-> blockno, valid |-> r.valid, refcnt |-> 1, tstamp |-> now]

\* lines 62-66 without line 65: the recycled slot keeps refcnt = 0
RecycleUnreferenced(r, dev, blockno, now) ==
    [dev |-> dev, blockno |-> blockno, valid |-> 0, refcnt |-> 0, tstamp |-> now]

\* lines 62-66: the recycled slot
Recycle(r, dev, blockno, now) ==
    [dev |-> dev, blockno |-> blockno, valid |-> 0, refcnt |-> 1, tstamp |-> now]

\* lines 46-49: bread calls bget, which takes the bucket's spinlock
BgetAcquire(t, dev, blockno) ==
    /\ panicked = ""
    /\ pc[t] = "idle"
    /\ calls < MaxCalls
    /\ calls' = calls + 1
    /\ lock[Hash(blockno)] = 0
    /\ lock' = [lock EXCEPT ![Hash(blockno)] = t]
    /\ id' = [id EXCEPT ![t] = Hash(blockno)]
    /\ req' = [req EXCEPT ![t] = <<dev, blockno>>]
    /\ pc' = [pc EXCEPT ![t] = "bget_scan"]
    /\ UNCHANGED <<buf, slk, ticks, b, hold, panicked,
                   pins, fills, io, rd, vlock, vscan, scan>>

\* lines 51-72 without line 55: a hit leaves the spinlock held
BgetScanKeepsLock(t) ==
    /\ panicked = ""
    /\ pc[t] = "bget_scan"
    /\ LET res == BgetLoop(id[t], 0, req[t][1], req[t][2], NoBuf)
           kind == IF res.hit # NoBuf THEN "hit"
                   ELSE IF res.lru # NoBuf THEN "evict" ELSE "none"
           pick == IF res.hit # NoBuf THEN res.hit ELSE res.lru
       IN \E now \in (IF kind = "evict" THEN Clock ELSE {ticks}) :
          LET after == IF kind = "hit" THEN Hit(buf[pick])
                       ELSE IF kind = "evict"
                            THEN Recycle(buf[pick], req[t][1], req[t][2], now)
                       ELSE <<>>
          IN /\ b' = [b EXCEPT ![t] = pick]
             /\ scan' = [scan EXCEPT ![t] =
                           [before |-> buf,
                            kind |-> kind, after |-> after, now |-> now]]
             /\ buf' = IF kind = "none" THEN buf ELSE [buf EXCEPT ![pick] = after]
             /\ ticks' = now
             /\ vscan' = [vscan EXCEPT ![t] = IF kind = "hit" THEN buf[pick].valid ELSE 0]
             /\ fills' = IF kind = "evict" THEN [fills EXCEPT ![pick] = 0] ELSE fills
             /\ pc' = [pc EXCEPT ![t] = IF kind = "none" THEN "panic" ELSE "bget_sleep"]
             /\ panicked' = IF kind = "none" THEN "bget: no buffers" ELSE panicked
             /\ lock' = IF kind = "hit" THEN lock ELSE [lock EXCEPT ![id[t]] = 0]
    /\ UNCHANGED <<slk, req, id, hold, calls, pins, io, rd, vlock>>

\* lines 51-72: the scan, what it does to the slot it picks, the release of the
\* spinlock, and the panic when the bucket has no slot to give
BgetScan(t) ==
    /\ panicked = ""
    /\ pc[t] = "bget_scan"
    /\ LET res == BgetLoop(id[t], 0, req[t][1], req[t][2], NoBuf)
           kind == IF res.hit # NoBuf THEN "hit"
                   ELSE IF res.lru # NoBuf THEN "evict" ELSE "none"
           pick == IF res.hit # NoBuf THEN res.hit ELSE res.lru
       IN \E now \in (IF kind = "evict" THEN Clock ELSE {ticks}) :
          LET after == IF kind = "hit" THEN Hit(buf[pick])
                       ELSE IF kind = "evict"
                            THEN Recycle(buf[pick], req[t][1], req[t][2], now)
                       ELSE <<>>
          IN /\ b' = [b EXCEPT ![t] = pick]
             /\ scan' = [scan EXCEPT ![t] =
                           [before |-> buf,
                            kind |-> kind, after |-> after, now |-> now]]
             /\ buf' = IF kind = "none" THEN buf ELSE [buf EXCEPT ![pick] = after]
             /\ ticks' = now
             /\ vscan' = [vscan EXCEPT ![t] = IF kind = "hit" THEN buf[pick].valid ELSE 0]
             /\ fills' = IF kind = "evict" THEN [fills EXCEPT ![pick] = 0] ELSE fills
             /\ pc' = [pc EXCEPT ![t] = IF kind = "none" THEN "panic" ELSE "bget_sleep"]
             /\ panicked' = IF kind = "none" THEN "bget: no buffers" ELSE panicked
    /\ lock' = [lock EXCEPT ![id[t]] = 0]
    /\ UNCHANGED <<slk, req, id, hold, calls, pins, io, rd, vlock>>

\* lines 56, 68 left out: bget returns the slot without acquiresleep
BgetNoSleep(t) ==
    /\ panicked = ""
    /\ pc[t] = "bget_sleep"
    /\ hold' = [hold EXCEPT ![t] = b[t]]
    /\ id' = [id EXCEPT ![t] = 0]
    /\ vlock' = [vlock EXCEPT ![t] = buf[b[t]].valid]
    /\ scan' = [scan EXCEPT ![t] = <<>>]
    /\ pc' = [pc EXCEPT ![t] = "bread_chk"]
    /\ UNCHANGED <<lock, buf, slk, ticks, req, b, panicked, calls, pins, fills, io, rd, vscan>>

\* lines 56, 68: acquiresleep(&b->lock) returns once the sleeplock is free
BgetSleep(t) ==
    /\ panicked = ""
    /\ pc[t] = "bget_sleep"
    /\ slk[b[t]] = 0
    /\ slk' = [slk EXCEPT ![b[t]] = t]
    /\ hold' = [hold EXCEPT ![t] = b[t]]
    /\ id' = [id EXCEPT ![t] = 0]
    /\ vlock' = [vlock EXCEPT ![t] = buf[b[t]].valid]
    /\ scan' = [scan EXCEPT ![t] = <<>>]
    /\ pc' = [pc EXCEPT ![t] = "bread_chk"]
    /\ UNCHANGED <<lock, buf, ticks, req, b, panicked, calls, pins, fills, io, rd, vscan>>

\* ---- bread ----

\* virtio_disk_rw(b, write): the transfer the driver is asked for
Transfer(t, s, write) ==
    [slot |-> s, write |-> write, dev |-> buf[s].dev, blockno |-> buf[s].blockno,
     holding |-> holdingsleep(t, s)]

\* lines 82-83 without the test of b->valid
BreadAlwaysReads(t) ==
    /\ panicked = ""
    /\ pc[t] = "bread_chk"
    /\ io' = [io EXCEPT ![t] = Transfer(t, b[t], 0)]
    /\ fills' = [fills EXCEPT ![b[t]] = IF @ < 2 THEN @ + 1 ELSE @]
    /\ rd' = [rd EXCEPT ![t] = TRUE]
    /\ pc' = [pc EXCEPT ![t] = "bread_valid"]
    /\ UNCHANGED <<lock, buf, slk, ticks, req, b, id, hold, panicked, calls,
                   pins, vlock, vscan, scan>>

\* lines 82-83: if(!b->valid) virtio_disk_rw(b, 0)
BreadCheck(t) ==
    /\ panicked = ""
    /\ pc[t] = "bread_chk"
    /\ IF buf[b[t]].valid = 0
       THEN /\ io' = [io EXCEPT ![t] = Transfer(t, b[t], 0)]
            /\ fills' = [fills EXCEPT ![b[t]] = IF @ < 2 THEN @ + 1 ELSE @]
            /\ rd' = [rd EXCEPT ![t] = TRUE]
            /\ pc' = [pc EXCEPT ![t] = "bread_valid"]
       ELSE /\ pc' = [pc EXCEPT ![t] = "bread_ret"]
            /\ UNCHANGED <<io, fills, rd>>
    /\ UNCHANGED <<lock, buf, slk, ticks, req, b, id, hold, panicked, calls,
                   pins, vlock, vscan, scan>>

\* line 84 left out
ValidateForgotten(r) == r

\* line 84: b->valid = 1
Validate(r) == [r EXCEPT !.valid = 1]

\* lines 83-84: the transfer is over; b->valid = 1
BreadValid(t) ==
    /\ panicked = ""
    /\ pc[t] = "bread_valid"
    /\ buf' = [buf EXCEPT ![b[t]] = Validate(@)]
    /\ io' = [io EXCEPT ![t] = <<>>]
    /\ pc' = [pc EXCEPT ![t] = "bread_ret"]
    /\ UNCHANGED <<lock, slk, ticks, req, b, id, hold, panicked, calls,
                   pins, fills, rd, vlock, vscan, scan>>

\* line 86: return b; the caller now works with the locked buffer
BreadReturn(t) ==
    /\ panicked = ""
    /\ pc[t] = "bread_ret"
    /\ pc' = [pc EXCEPT ![t] = "held"]
    /\ req' = [req EXCEPT ![t] = NoId]
    /\ rd' = [rd EXCEPT ![t] = FALSE]
    /\ vlock' = [vlock EXCEPT ![t] = 0]
    /\ vscan' = [vscan EXCEPT ![t] = 0]
    /\ UNCHANGED <<lock, buf, slk, ticks, b, id, hold, panicked, calls,
                   pins, fills, io, scan>>

\* ---- bwrite ----

\* lines 91-95 without the test of holdingsleep
BwriteUnchecked(t, s) ==
    /\ panicked = ""
    /\ pc[t] \in {"idle", "held"}
    /\ b' = [b EXCEPT ![t] = s]
    /\ io' = [io EXCEPT ![t] = Transfer(t, s, 1)]
    /\ pc' = [pc EXCEPT ![t] = "bwrite_io"]
    /\ UNCHANGED <<lock, buf, slk, ticks, req, id, hold, panicked, calls,
                   pins, fills, rd, vlock, vscan, scan>>

\* lines 91-95: panic unless the caller holds b's sleeplock, else start the write
Bwrite(t, s) ==
    /\ panicked = ""
    /\ pc[t] \in {"idle", "held"}
    /\ IF ~holdingsleep(t, s)
       THEN /\ calls < MaxCalls
            /\ calls' = calls + 1
            /\ panicked' = "bwrite"
            /\ pc' = [pc EXCEPT ![t] = "panic"]
            /\ UNCHANGED <<b, io>>
       ELSE /\ b' = [b EXCEPT ![t] = s]
            /\ io' = [io EXCEPT ![t] = Transfer(t, s, 1)]
            /\ pc' = [pc EXCEPT ![t] = "bwrite_io"]
            /\ UNCHANGED <<panicked, calls>>
    /\ UNCHANGED <<lock, buf, slk, ticks, req, id, hold,
                   pins, fills, rd, vlock, vscan, scan>>

\* lines 95-96: the write is over, bwrite returns
BwriteDone(t) ==
    /\ panicked = ""
    /\ pc[t] = "bwrite_io"
    /\ io' = [io EXCEPT ![t] = <<>>]
    /\ pc' = [pc EXCEPT ![t] = "held"]
    /\ UNCHANGED <<lock, buf, slk, ticks, req, b, id, hold, panicked, calls,
                   pins, fills, rd, vlock, vscan, scan>>

\* ---- brelse ----

\* lines 102-105 without line 105: the sleeplock is still held when brelse goes
\* on to the bucket's spinlock
BrelseKeepsSleeplock(t, s) ==
    /\ panicked = ""
    /\ pc[t] \in {"idle", "held"}
    /\ IF ~holdingsleep(t, s)
       THEN /\ calls < MaxCalls
            /\ calls' = calls + 1
            /\ panicked' = "brelse"
            /\ pc' = [pc EXCEPT ![t] = "panic"]
            /\ UNCHANGED <<b, hold>>
       ELSE /\ b' = [b EXCEPT ![t] = s]
            /\ hold' = [hold EXCEPT ![t] = NoBuf]
            /\ pc' = [pc EXCEPT ![t] = "brelse_id"]
            /\ UNCHANGED <<panicked, calls>>
    /\ UNCHANGED <<lock, buf, slk, ticks, req, id, pins, fills, io, rd, vlock, vscan, scan>>

\* lines 102-105: panic unless the caller holds b's sleeplock, else releasesleep
Brelse(t, s) ==
    /\ panicked = ""
    /\ pc[t] \in {"idle", "held"}
    /\ IF ~holdingsleep(t, s)
       THEN /\ calls < MaxCalls
            /\ calls' = calls + 1
            /\ panicked' = "brelse"
            /\ pc' = [pc EXCEPT ![t] = "panic"]
            /\ UNCHANGED <<b, slk, hold>>
       ELSE /\ b' = [b EXCEPT ![t] = s]
            /\ slk' = [slk EXCEPT ![s] = 0]
            /\ hold' = [hold EXCEPT ![t] = NoBuf]
            /\ pc' = [pc EXCEPT ![t] = "brelse_id"]
            /\ UNCHANGED <<panicked, calls>>
    /\ UNCHANGED <<lock, buf, ticks, req, id, pins, fills, io, rd, vlock, vscan, scan>>

\* lines 107, 116, 124 with the bucket of block 0 whatever b->blockno is
ReadIdZero(t, s, next) ==
    /\ panicked = ""
    /\ b' = [b EXCEPT ![t] = s]
    /\ id' = [id EXCEPT ![t] = 0]
    /\ pc' = [pc EXCEPT ![t] = next]
    /\ UNCHANGED <<lock, buf, slk, ticks, req, hold, panicked>>

\* lines 107, 116, 124: uint id = b->blockno % NBUCKETS
ReadId(t, s, next) ==
    /\ panicked = ""
    /\ b' = [b EXCEPT ![t] = s]
    /\ id' = [id EXCEPT ![t] = Hash(buf[s].blockno)]
    /\ pc' = [pc EXCEPT ![t] = next]
    /\ UNCHANGED <<lock, buf, slk, ticks, req, hold, panicked>>

\* lines 108, 117, 125 left out: the function goes on without the spinlock
AcquireSkipped(t, next) ==
    /\ panicked = ""
    /\ pc' = [pc EXCEPT ![t] = next]
    /\ UNCHANGED <<lock, buf, slk, ticks, req, b, id, hold, panicked, hist>>

\* lines 108, 117, 125: acquire(&bcache[id].lock)
Acquire(t, next) ==
    /\ panicked = ""
    /\ lock[id[t]] = 0
    /\ lock' = [lock EXCEPT ![id[t]] = t]
    /\ pc' = [pc EXCEPT ![t] = next]
    /\ UNCHANGED <<buf, slk, ticks, req, b, id, hold, panicked, hist>>

\* lines 111, 119, 127 left out: the function returns with the spinlock held
ReturnKeepsLock(t) ==
    /\ lock' = lock
    /\ pc' = [pc EXCEPT ![t] = IF hold[t] = NoBuf THEN "idle" ELSE "held"]
    /\ b' = [b EXCEPT ![t] = hold[t]]
    /\ id' = [id EXCEPT ![t] = 0]

\* lines 111, 119, 127: release(&bcache[id].lock) and return to the caller, who
\* still holds the buffer it had locked, if any
Return(t) ==
    /\ lock' = [lock EXCEPT ![id[t]] = 0]
    /\ pc' = [pc EXCEPT ![t] = IF hold[t] = NoBuf THEN "idle" ELSE "held"]
    /\ b' = [b EXCEPT ![t] = hold[t]]
    /\ id' = [id EXCEPT ![t] = 0]

BrelseId(t) == pc[t] = "brelse_id" /\ ReadId(t, b[t], "brelse_acq") /\ UNCHANGED hist

BrelseAcquire(t) == pc[t] = "brelse_acq" /\ Acquire(t, "brelse_dec")

\* lines 109-110 with the slot marked invalid as well
ReleasedInvalid(r, now) == [r EXCEPT !.refcnt = @ - 1, !.tstamp = now, !.valid = 0]

\* lines 109-110: b->refcnt--; b->tstamp = ticks
Released(r, now) == [r EXCEPT !.refcnt = @ - 1, !.tstamp = now]

\* lines 109-112
BrelseDec(t) ==
    /\ panicked = ""
    /\ pc[t] = "brelse_dec"
    /\ \E now \in Clock :
        /\ buf' = [buf EXCEPT ![b[t]] = Released(@, now)]
        /\ ticks' = now
    /\ Return(t)
    /\ UNCHANGED <<slk, req, hold, panicked, hist>>

\* ---- bpin, bunpin ----

\* bpin calls on slot s that have not incremented yet
Pinning(s) ==
    Cardinality({t \in Threads : b[t] = s /\ pc[t] \in {"bpin_acq", "bpin_inc"}})

\* bunpin calls on slot s that have not decremented yet
Unpinning(s) ==
    Cardinality({t \in Threads : b[t] = s /\ pc[t] \in {"bunpin_acq", "bunpin_dec"}})

\* the buffers that are pinned or about to be
Pinned == {s \in Slots : pins[s] + Pinning(s) > 0}

\* lines 115-116: bpin(b), called by the thread that holds b locked, for a
\* buffer that is not pinned yet
Bpin(t) ==
    /\ pc[t] = "held"
    /\ hold[t] \notin Pinned
    /\ Cardinality(Pinned) < MaxPinned
    /\ ReadId(t, hold[t], "bpin_acq")
    /\ UNCHANGED <<calls, pins, fills, io, rd, vlock, vscan, scan>>

BpinAcquire(t) == pc[t] = "bpin_acq" /\ Acquire(t, "bpin_inc")

\* line 118: b->refcnt++
Pin(r) == [r EXCEPT !.refcnt = @ + 1]

\* lines 118-120
BpinInc(t) ==
    /\ panicked = ""
    /\ pc[t] = "bpin_inc"
    /\ buf' = [buf EXCEPT ![b[t]] = Pin(@)]
    /\ pins' = [pins EXCEPT ![b[t]] = @ + 1]
    /\ Return(t)
    /\ UNCHANGED <<slk, ticks, req, hold, panicked, calls,
                   fills, io, rd, vlock, vscan, scan>>

\* lines 123-124: bunpin(b) undoes an earlier bpin(b); the caller holds b locked,
\* or holds no buffer and kept the pointer of the buffer that is pinned
Bunpin(t, s) ==
    /\ \/ pc[t] = "held" /\ s = hold[t]
       \/ pc[t] = "idle"
    /\ pins[s] - Unpinning(s) > 0
    /\ ReadId(t, s, "bunpin_acq")
    /\ UNCHANGED hist

BunpinAcquire(t) == pc[t] = "bunpin_acq" /\ Acquire(t, "bunpin_dec")

\* line 126: b->refcnt--
Unpin(r) == [r EXCEPT !.refcnt = @ - 1]

\* lines 126-128
BunpinDec(t) ==
    /\ panicked = ""
    /\ pc[t] = "bunpin_dec"
    /\ buf' = [buf EXCEPT ![b[t]] = Unpin(@)]
    /\ pins' = [pins EXCEPT ![b[t]] = @ - 1]
    /\ Return(t)
    /\ UNCHANGED <<slk, ticks, req, hold, panicked, calls, 
                   fills, io, rd, vlock, vscan, scan>>

\* ---- the kernel ----

Next ==
    \E t \in Threads :
        \/ \E dev \in Devs, blockno \in Blocks : BgetAcquire(t, dev, blockno)
        \/ BgetScan(t)
        \/ BgetSleep(t)
        \/ BreadCheck(t)
        \/ BreadValid(t)
        \/ BreadReturn(t)
        \/ \E s \in Slots : Bwrite(t, s)
        \/ BwriteDone(t)
        \/ \E s \in Slots : Brelse(t, s)
        \/ BrelseId(t)
        \/ BrelseAcquire(t)
        \/ BrelseDec(t)
        \/ Bpin(t)
        \/ BpinAcquire(t)
        \/ BpinInc(t)
        \/ \E s \in Slots : Bunpin(t, s)
        \/ BunpinAcquire(t)
        \/ BunpinDec(t)

Spec == Init /\ [][Next]_vars

\* ---- what the claims are about ----

\* the threads that hold slot s locked, between the return of bread and brelse
Holders(s) == {t \in Threads : hold[t] = s}

\* the threads whose reference to slot s is counted in refcnt: from bget's
\* refcnt++ or refcnt = 1 to brelse's refcnt--
Users(s) ==
    {t \in Threads :
        /\ b[t] = s
        /\ \/ pc[t] \in {"bget_sleep", "brelse_id", "brelse_acq", "brelse_dec"}
           \/ hold[t] = s}

\* the slots of the bucket that thread t's bget scans
Scanned(t) == {s \in Slots : s[1] = id[t]}

\* the slot that bget's scan picked for thread t, as the scan found it
Picked(t) == scan[t].before[b[t]]

\* the slots of the bucket that nobody referenced when the scan found them
FreeBefore(t) == {s \in Scanned(t) : scan[t].before[s].refcnt = 0}

\* the slots of the bucket that carried the requested block when the scan
\* found them
MatchBefore(t) ==
    {s \in Scanned(t) : <<scan[t].before[s].dev, scan[t].before[s].blockno>> = req[t]}

\* thread t's bget has just recycled a slot
Evicting(t) == scan[t] # <<>> /\ scan[t].kind = "evict"

\* a slot that caches a block: somebody references it or its payload is valid
Live(s) == buf[s].refcnt > 0 \/ buf[s].valid = 1

\* C1 as claimed: in every reachable state no two slots of the cache carry the
\* same block identity (dev, blockno).
C1_UniqueIdentity ==
    \A s1 \in Slots, s2 \in Slots : s1 # s2 => Ident(s1) # Ident(s2)

\* C1 as amended: no two slots that are referenced or valid carry the same
\* block identity, and the threads that have got a block from bget and not
\* released it yet all have the same slot.
C1_UniqueLiveIdentity ==
    /\ \A s1 \in Slots, s2 \in Slots :
        (s1 # s2 /\ Live(s1) /\ Live(s2)) => Ident(s1) # Ident(s2)
    /\ \A s1 \in Slots, s2 \in Slots :
        (Users(s1) # {} /\ Users(s2) # {} /\ Ident(s1) = Ident(s2)) => s1 = s2

\* C1 witness: two threads have got the slot of block (0, 0) from bget while
\* another slot of the bucket, never used, carries (0, 0) as well.
C1_Witness ==
    \E s1 \in Slots, s2 \in Slots :
        /\ s1 # s2
        /\ s1[1] = s2[1]
        /\ Cardinality(Users(s1)) = 2
        /\ Ident(s1) = Ident(s2)

\* C2: at most one thread at a time is between the return of bread for a slot
\* and its brelse; that thread owns the slot's sleeplock, a thread that waits
\* for the slot does not, and a transfer is only ever in progress for the
\* thread that holds the slot.
C2_Exclusive ==
    /\ \A s \in Slots : Cardinality(Holders(s)) <= 1
    /\ \A t \in Threads :
        /\ hold[t] # NoBuf => slk[hold[t]] = t
        /\ pc[t] = "bget_sleep" => hold[t] = NoBuf /\ slk[b[t]] # t
        /\ io[t] # <<>> => io[t].holding /\ hold[t] = io[t].slot /\ slk[io[t].slot] = t

\* C2 witness: one thread is inside bread's transfer on a slot while another
\* thread, which asked for the same block, waits for the slot's sleeplock.
C2_Witness ==
    \E t \in Threads, u \in Threads :
        /\ t # u
        /\ io[t] # <<>>
        /\ pc[u] = "bget_sleep"
        /\ b[u] = hold[t]

\* C3: when bread returns, the slot carries the requested (dev, blockno), is
\* valid and is locked by the caller, and the driver was asked to read exactly
\* when the slot was invalid at the moment the caller got the sleeplock.
C3_BreadResult ==
    \A t \in Threads :
        pc[t] = "bread_ret" =>
            /\ Ident(b[t]) = req[t]
            /\ buf[b[t]].valid = 1
            /\ holdingsleep(t, b[t])
            /\ rd[t] <=> (vlock[t] = 0)

\* C3 witness: two calls of bread are about to return, one that read the block
\* from the disk and one that found it valid.
C3_Witness ==
    \E t \in Threads, u \in Threads :
        /\ pc[t] = "bread_ret" /\ rd[t]
        /\ pc[u] = "bread_ret" /\ ~rd[u]

\* C4: a recycled slot gets the requested identity, valid = 0, refcnt = 1 and
\* tstamp = the current ticks; and a slot that is valid has had its payload
\* read from the disk since its identity was last assigned.
C4_NoStaleContent ==
    /\ \A t \in Threads :
        Evicting(t) =>
            scan[t].after = [dev |-> req[t][1], blockno |-> req[t][2], valid |-> 0,
                             refcnt |-> 1, tstamp |-> scan[t].now]
    /\ \A s \in Slots : buf[s].valid = 1 => fills[s] >= 1

\* C4 witness: bget has recycled a slot that was valid for another block.
C4_Witness ==
    \E t \in Threads :
        /\ Evicting(t)
        /\ Picked(t).valid = 1
        /\ <<Picked(t).dev, Picked(t).blockno>> # req[t]

\* C5: the slot whose identity and valid flag bget reassigns had refcnt = 0
\* when the scan chose it, whatever the tstamps in the bucket.
C5_PinProtection ==
    \A t \in Threads : Evicting(t) => Picked(t).refcnt = 0

\* C5 witness: bget recycles a slot although a slot with refcnt > 0 of the same
\* bucket has a smaller tstamp.
C5_Witness ==
    \E t \in Threads :
        /\ Evicting(t)
        /\ \E s \in Scanned(t) :
            /\ scan[t].before[s].refcnt > 0
            /\ scan[t].before[s].tstamp < Picked(t).tstamp

\* C6: when bget recycles a slot and the slots of the bucket with refcnt = 0
\* have pairwise distinct tstamps, the recycled slot is the one of them with
\* the smallest tstamp.
C6_LRU ==
    \A t \in Threads :
        (/\ Evicting(t)
         /\ \A s1 \in FreeBefore(t), s2 \in FreeBefore(t) :
                s1 # s2 => scan[t].before[s1].tstamp # scan[t].before[s2].tstamp)
        => /\ b[t] \in FreeBefore(t)
           /\ \A s \in FreeBefore(t) : Picked(t).tstamp <= scan[t].before[s].tstamp

\* C6 witness: bget recycles the second slot of a bucket because the first one,
\* also unreferenced, has a larger tstamp.
C6_Witness ==
    \E t \in Threads :
        /\ Evicting(t)
        /\ b[t][2] = 1
        /\ <<id[t], 0>> \in FreeBefore(t)
        /\ scan[t].before[<<id[t], 0>>].tstamp > Picked(t).tstamp

\* C7: a valid slot stays valid until it is recycled, whatever is released in
\* between; a bread of a block that a valid slot carries gets that slot, finds
\* it valid and returns without asking the driver.
C7_ValidityPreserved ==
    /\ \A s \in Slots :
        fills[s] >= 1 =>
            buf[s].valid = 1 \/ \E t \in Threads : pc[t] = "bread_valid" /\ b[t] = s
    /\ \A t \in Threads :
        scan[t] # <<>> =>
            \A s \in MatchBefore(t) :
                scan[t].before[s].valid = 1 =>
                    scan[t].kind = "hit" /\ b[t] = s /\ vscan[t] = 1
    /\ \A t \in Threads :
        vscan[t] = 1 =>
            /\ Ident(b[t]) = req[t]
            /\ buf[b[t]].valid = 1
            /\ ~rd[t]
            /\ pc[t] \in {"bget_sleep", "bread_chk", "bread_ret"}

\* C7 witness: a bread of a block that was valid in the cache, and has been
\* released since, is about to return.
C7_Witness ==
    \E t \in Threads :
        /\ pc[t] = "bread_ret"
        /\ vscan[t] = 1
        /\ buf[b[t]].refcnt = 1

\* C8: bget panics exactly when no slot of the scanned bucket carries the
\* requested block and every slot of that bucket has refcnt > 0; it has then
\* released the spinlock and changed no slot.
C8_Exhaustion ==
    /\ \A t \in Threads :
        scan[t] # <<>> =>
            /\ scan[t].kind = "none" <=> (MatchBefore(t) = {} /\ FreeBefore(t) = {})
            /\ scan[t].kind = "none" =>
                /\ pc[t] = "panic"
                /\ panicked = "bget: no buffers"
                /\ lock[id[t]] = 0
                /\ buf = scan[t].before
            /\ scan[t].kind # "none" => pc[t] = "bget_sleep"
    /\ panicked = "bget: no buffers" =>
        \E t \in Threads : scan[t] # <<>> /\ scan[t].kind = "none"

\* C8 witness: bget has panicked while another bucket has a slot with refcnt = 0.
C8_Witness ==
    /\ panicked = "bget: no buffers"
    /\ \E t \in Threads :
        /\ pc[t] = "panic"
        /\ \E s \in Slots : s[1] # id[t] /\ buf[s].refcnt = 0

\* C9: bwrite starts a transfer, and brelse releases the sleeplock, only for the
\* thread that holds the slot's sleeplock; the step that panics in bwrite or
\* brelse changes no slot, no lock and starts no transfer.
C9_LockDiscipline ==
    [][/\ \A t \in Threads :
            /\ (pc[t] # "bwrite_io" /\ pc'[t] = "bwrite_io") => slk[b'[t]] = t
            /\ (pc[t] # "brelse_id" /\ pc'[t] = "brelse_id") => slk[b'[t]] = t
       /\ (panicked = "" /\ panicked' \in {"bwrite", "brelse"}) =>
            /\ buf' = buf
            /\ slk' = slk
            /\ lock' = lock
            /\ io' = io]_vars

\* C9 witness: bwrite has panicked while another thread holds a slot locked.
C9_Witness ==
    /\ panicked = "bwrite"
    /\ \E s \in Slots : slk[s] # 0 /\ buf[s].refcnt > 0

\* C10: outside the bucket's critical sections refcnt is the number of threads
\* that got the slot from bget and have not finished brelse, plus the number of
\* pins not undone; each of those threads finds the identity it asked for.
C10_RefCount ==
    /\ \A s \in Slots :
        lock[s[1]] = 0 =>
            /\ buf[s].refcnt = Cardinality(Users(s)) + pins[s]
            /\ buf[s].refcnt >= 0
    /\ \A t \in Threads :
        pc[t] \in {"bget_sleep", "bread_chk", "bread_valid", "bread_ret"} =>
            Ident(b[t]) = req[t]

\* C10 witness: two threads have got the same slot from bget and none has
\* released it: refcnt is 2.
C10_Witness ==
    \E s \in Slots :
        /\ lock[s[1]] = 0
        /\ buf[s].refcnt = 2
        /\ Cardinality(Users(s)) = 2
        /\ pins[s] = 0

\* the spinlocks thread t holds
Spinlocks(t) == {i \in Buckets : lock[i] = t}

\* the sleeplocks thread t holds
Sleeplocks(t) == {s \in Slots : slk[s] = t}

C12_NoBlockingUnderSpinlock ==
    \A t \in Threads :
        /\ Cardinality(Spinlocks(t)) <= 1
        /\ io[t] # <<>> => Spinlocks(t) = {}
        /\ pc[t] \in {"bget_sleep", "bread_valid", "bwrite_io"} => Spinlocks(t) = {}
        /\ Spinlocks(t) # {} =>
                /\ pc[t] \in {"bget_scan", "brelse_dec", "bpin_inc", "bunpin_dec"}
                /\ Spinlocks(t) = {id[t]}

\* C12 witness: the driver writes a slot for one thread, another thread waits
\* for that slot's sleeplock, and the spinlock of the slot's bucket is free.
C12_Witness ==
    \E t \in Threads, u \in Threads :
        /\ pc[t] = "bwrite_io"
        /\ io[t].write = 1
        /\ pc[u] = "bget_sleep"
        /\ b[u] = io[t].slot
        /\ lock[b[u][1]] = 0

\* the thread that takes the step
Actor(t) == pc'[t] # pc[t]

\* the slots whose dev, blockno, valid, refcnt or tstamp the step of thread t
\* reads: bget's scan (lines 52-58), bread's test of valid (line 82), the
\* blockno that brelse, bpin and bunpin hash (lines 107, 116, 124) and the
\* refcnt they update (lines 109, 118, 126)
ReadsOf(t) ==
    IF pc[t] = "bget_scan" THEN Scanned(t)
    ELSE IF pc[t] = "bread_chk" THEN {b[t]}
    ELSE IF pc'[t] \in {"brelse_acq", "bpin_acq", "bunpin_acq"} THEN {b'[t]}
    ELSE IF pc[t] \in {"brelse_dec", "bpin_inc", "bunpin_dec"} THEN {b[t]}
    ELSE {}

\* the slots whose dev, blockno, valid, refcnt or tstamp the step changes
WritesOf == {s \in Slots : buf'[s] # buf[s]}

\* C13 as claimed: every step of bget, bread, brelse, bpin or bunpin that reads
\* or writes dev, blockno, valid, refcnt or tstamp of a slot is taken by a
\* thread that holds the spinlock of the slot's bucket.
C13_AllUnderSpinlock ==
    [][\A t \in Threads :
        Actor(t) => \A s \in ReadsOf(t) \cup WritesOf : lock[s[1]] = t]_vars

\* C13 as amended: refcnt, tstamp, dev and blockno are written, and valid is
\* reset, only by a thread that holds the spinlock of the slot's bucket, and
\* bget's scan reads under it; bread tests and sets valid under the slot's
\* sleeplock, with or without the spinlock; brelse, bpin and bunpin read blockno
\* before they take the spinlock, of a slot with refcnt >= 1.
C13_Bookkeeping ==
    [][\A t \in Threads :
        Actor(t) => \A s \in Slots :
            /\ (\/ buf'[s].refcnt # buf[s].refcnt
                \/ buf'[s].tstamp # buf[s].tstamp
                \/ buf'[s].dev # buf[s].dev
                \/ buf'[s].blockno # buf[s].blockno) => lock[s[1]] = t
            /\ (buf[s].valid = 1 /\ buf'[s].valid = 0) =>
                    lock[s[1]] = t /\ pc[t] = "bget_scan"
            /\ (buf[s].valid = 0 /\ buf'[s].valid = 1) =>
                    pc[t] = "bread_valid" /\ holdingsleep(t, s)
            /\ s \in ReadsOf(t) =>
                    \/ lock[s[1]] = t
                    \/ pc[t] = "bread_chk" /\ holdingsleep(t, s)
                    \/ /\ pc'[t] \in {"brelse_acq", "bpin_acq", "bunpin_acq"}
                       /\ buf[s].refcnt >= 1]_vars

\* C13 witness: bread is about to set valid of a slot, under its sleeplock,
\* while another thread holds the spinlock of the slot's bucket for bget's scan.
C13_Witness ==
    \E t \in Threads, u \in Threads :
        /\ pc[t] = "bread_valid"
        /\ holdingsleep(t, b[t])
        /\ pc[u] = "bget_scan"
        /\ lock[b[t][1]] = u

\* the slots whose dev or blockno the step changes
Reassigned ==
    {s \in Slots : <<buf'[s].dev, buf'[s].blockno>> # <<buf[s].dev, buf[s].blockno>>}

\* C14 as claimed: a step that changes dev or blockno of a slot is taken by a
\* thread that holds the slot's sleeplock.
C14_IdentityUnderSleeplock ==
    [][\A t \in Threads :
        Actor(t) => \A s \in Reassigned : holdingsleep(t, s)]_vars

\* C14 as amended: dev and blockno of a slot change only in bget's recycling,
\* by a thread that holds the spinlock of the slot's bucket and not the slot's
\* sleeplock, and only when the slot has refcnt = 0, its sleeplock is free and
\* no thread holds it or waits for it.
C14_IdentityUnderSpinlock ==
    [][\A t \in Threads :
        Actor(t) => \A s \in Reassigned :
            /\ pc[t] = "bget_scan"
            /\ lock[s[1]] = t
            /\ buf[s].refcnt = 0
            /\ slk[s] = 0
            /\ Users(s) = {}
            /\ slk'[s] = 0]_vars

\* C14 witness: bget has given a slot another identity and has not taken the
\* slot's sleeplock yet.
C14_Witness ==
    \E t \in Threads :
        /\ Evicting(t)
        /\ <<Picked(t).dev, Picked(t).blockno>> # Ident(b[t])
        /\ slk[b[t]] = 0
        /\ pc[t] = "bget_sleep"

\* thread t's bget has just found the block in the bucket
Hitting(t) == scan[t] # <<>> /\ scan[t].kind = "hit"

\* C15 as claimed: the slot that bget returns as a hit is never a slot that no
\* bget has used since initialization, which is still as static zeroing left it.
C15_HitOnlyAssigned ==
    \A t \in Threads : Hitting(t) => Picked(t) # ZeroBuf

\* C15 as amended: bget returns a hit exactly when a slot of the bucket carries
\* the requested (dev, blockno), whether or not the slot was ever assigned, and
\* only increments its refcnt; a slot still as initialization left it is a hit
\* for (0, 0) only, with refcnt 1, valid 0 and tstamp 0 afterwards, and any
\* other request gets it only by recycling, with refcnt 1 and tstamp = ticks.
C15_HitByIdentity ==
    \A t \in Threads :
        scan[t] # <<>> =>
            /\ scan[t].kind = "hit" <=> MatchBefore(t) # {}
            /\ scan[t].kind = "hit" =>
                    /\ b[t] \in MatchBefore(t)
                    /\ scan[t].after = [Picked(t) EXCEPT !.refcnt = @ + 1]
            /\ (scan[t].kind = "hit" /\ Picked(t) = ZeroBuf) =>
                    /\ req[t] = <<0, 0>>
                    /\ scan[t].after = [ZeroBuf EXCEPT !.refcnt = 1]
            /\ (scan[t].kind # "none" /\ Picked(t) = ZeroBuf /\ req[t] # <<0, 0>>) =>
                    /\ scan[t].kind = "evict"
                    /\ scan[t].after.refcnt = 1
                    /\ scan[t].after.tstamp = scan[t].now

\* C15 witness: bget returns as a hit for (0, 0) a slot that was never
\* assigned, after another slot of the cache has been recycled and filled.
C15_Witness ==
    \E t \in Threads :
        /\ Hitting(t)
        /\ Picked(t) = ZeroBuf
        /\ buf[b[t]].refcnt = 1
        /\ \E s \in Slots : buf[s].valid = 1

\* the unreferenced slots of the bucket with the smallest tstamp, as the scan
\* found them
OldestBefore(t) ==
    {s \in FreeBefore(t) :
        \A s2 \in FreeBefore(t) : scan[t].before[s].tstamp <= scan[t].before[s2].tstamp}

\* C16: the slot that bget recycles is, among the slots of the bucket with
\* refcnt = 0 and the smallest tstamp, the one with the lowest index.
C16_TieBreak ==
    \A t \in Threads :
        Evicting(t) =>
            /\ b[t] \in OldestBefore(t)
            /\ \A s \in OldestBefore(t) : b[t][2] <= s[2]

\* C16 witness: bget recycles the first slot of a bucket whose two slots were
\* both unreferenced, both used before, with the same tstamp.
C16_Witness ==
    \E t \in Threads :
        /\ Evicting(t)
        /\ Cardinality(OldestBefore(t)) = 2
        /\ \A s \in OldestBefore(t) : scan[t].before[s].valid = 1
        /\ b[t][2] = 0

\* C17: a slot that some thread got from bget and has not finished releasing
\* has refcnt >= 1, before and after every step; no step changes dev or blockno
\* of such a slot; and the slot that bget picks carries the requested identity.
\* So the identity a caller asked for stays from bget's choice to brelse's
\* refcnt--, across brelse's early release of the sleeplock.
C17_IdentityStable ==
    [][\A s \in Slots :
        /\ Users(s) # {} => buf[s].refcnt >= 1
        /\ Users(s)' # {} => buf'[s].refcnt >= 1
        /\ Users(s) # {} => s \notin Reassigned
        /\ \A t \in Threads :
            (pc[t] = "bget_scan" /\ pc'[t] = "bget_sleep" /\ b'[t] = s) =>
                <<buf'[s].dev, buf'[s].blockno>> = req[t]]_vars

\* C17 witness: brelse has released the sleeplock of a slot and not yet
\* decremented its refcnt of 1, and another thread's bget is about to scan the
\* slot's bucket for a block that is not cached.
C17_Witness ==
    \E t \in Threads, u \in Threads :
        /\ pc[t] = "brelse_acq"
        /\ slk[b[t]] = 0
        /\ buf[b[t]].refcnt = 1
        /\ pc[u] = "bget_scan"
        /\ id[u] = b[t][1]
        /\ \A s \in Scanned(u) : Ident(s) # req[u]

\* C18: a slot with refcnt > 0 lies in the bucket that its blockno hashes to,
\* and the spinlock that brelse, bpin and bunpin take for a slot is the one of
\* the bucket that contains it, as is the one bget holds for the slot it picks.
C18_BucketConsistency ==
    /\ \A s \in Slots : buf[s].refcnt > 0 => Hash(buf[s].blockno) = s[1]
    /\ \A t \in Threads :
        /\ pc[t] \in {"brelse_acq", "brelse_dec", "bpin_acq", "bpin_inc",
                      "bunpin_acq", "bunpin_dec"} => id[t] = b[t][1]
        /\ pc[t] \in {"brelse_dec", "bpin_inc", "bunpin_dec"} => lock[b[t][1]] = t
        /\ (scan[t] # <<>> /\ scan[t].kind # "none") => id[t] = b[t][1]

\* C18 witness: brelse holds the spinlock of bucket 1 to decrement refcnt of a
\* slot of bucket 1, while bucket 0 still has a never used slot, which carries
\* blockno 0.
C18_Witness ==
    \E t \in Threads :
        /\ pc[t] = "brelse_dec"
        /\ b[t][1] = 1
        /\ lock[1] = t
        /\ \E s \in Slots : s[1] = 0 /\ buf[s] = ZeroBuf

\* C19: the driver has been asked to read into a slot at most once since bget
\* last gave the slot its identity, and a bread that finds the slot valid once
\* it has the sleeplock does not ask again.
C19_SingleFill ==
    /\ \A s \in Slots : fills[s] <= 1
    /\ \A t \in Threads :
        (pc[t] \in {"bread_valid", "bread_ret"} /\ ~rd[t]) =>
            vlock[t] = 1 /\ fills[b[t]] = 1

\* C19 witness: a bread whose bget found the block cached but not yet valid,
\* because another bread was still reading it, returns without having asked the
\* driver; the slot has been filled once.
C19_Witness ==
    \E t \in Threads :
        /\ pc[t] = "bread_ret"
        /\ vscan[t] = 0
        /\ ~rd[t]
        /\ fills[b[t]] = 1
        /\ buf[b[t]].refcnt = 2

\* ---- progress ----

\* brelse(b) by the thread that bread returned b to
Release(t) == pc[t] = "held" /\ Brelse(t, hold[t])

\* the steps of thread t that wait for nothing
Step(t) ==
    \/ BgetScan(t) \/ BreadCheck(t) \/ BreadValid(t) \/ BreadReturn(t)
    \/ BwriteDone(t) \/ BrelseId(t) \/ BrelseDec(t) \/ BpinInc(t) \/ BunpinDec(t)

\* the steps in which thread t gets a lock it waits for: acquiresleep in bget,
\* acquire in brelse, bpin and bunpin
Wait(t) == BgetSleep(t) \/ BrelseAcquire(t) \/ BpinAcquire(t) \/ BunpinAcquire(t)

\* Fair scheduling: a thread that can take its next step inside bread, bwrite,
\* brelse, bpin or bunpin takes it, and the driver ends every transfer; a
\* thread that waits for a spinlock or a sleeplock that is free again and again
\* gets it; a thread that holds a buffer releases it in the end.
Fairness ==
    \A t \in Threads :
        /\ WF_vars(Step(t))
        /\ SF_vars(Wait(t))
        /\ SF_vars(Release(t))

\* the load of the runs whose progress is checked
MaxLiveCalls == 2

LiveLoad == calls <= MaxLiveCalls

LiveNext == Next /\ LiveLoad'

LiveSpec == Init /\ [][LiveNext]_vars /\ Fairness

\* thread t is inside bread, brelse, bpin or bunpin
Busy(t) ==
    pc[t] \in {"bget_scan", "bget_sleep", "bread_chk", "bread_valid", "bread_ret",
              "brelse_id", "brelse_acq", "brelse_dec", "bpin_acq", "bpin_inc",
              "bunpin_acq", "bunpin_dec"}

\* C20: under fair scheduling, with callers that release what they hold, every
\* bread that has started returns to its caller, who then holds the buffer,
\* unless the kernel panics, and every brelse, bpin and bunpin that has started
\* returns: no thread waits for ever for a spinlock or a sleeplock of the cache.
C20_Progress ==
    \A t \in Threads : Busy(t) ~> (pc[t] \in {"idle", "held"} \/ panicked # "")

\* C20 witness: a bread waits for the sleeplock of a buffer that another thread
\* holds, and that thread waits for the bucket's spinlock to pin the buffer.
C20_Witness ==
    \E t \in Threads, u \in Threads :
        /\ pc[t] = "bget_sleep"
        /\ slk[b[t]] = u
        /\ u # t
        /\ pc[u] = "bpin_acq"

====
